---- MODULE Spec2Model ----
(***************************************************************************)
(* Model of the hierarchical index types of common/world (tree.rs) and of  *)
(* the icosahedral projector they hash through (ico.rs).                   *)
(*                                                                         *)
(* A QuadtreeIndex / OctreeIndex is a NonZero<u64>.  TLC's integers are 32 *)
(* bits wide, so a u64 is four 16-bit limbs, least significant first:      *)
(* x = x[1] + 2^16 * x[2] + 2^32 * x[3] + 2^48 * x[4].  Shifts discard the *)
(* bits that leave the word and sums wrap, as the machine's do.            *)
(***************************************************************************)
EXTENDS Integers, Sequences, FiniteSets, TLC

\* ------------------------------------------------------------------ u64

W64 == 64

LimbBits == W64 \div 4

LimbBase == 2^LimbBits

Limbs == 1..(W64 \div LimbBits)

U64Zero == [i \in Limbs |-> 0]

\* The u64 of a natural below 2^16.
U64FromNat(n) == [i \in Limbs |-> IF i = 1 THEN n ELSE 0]

\* Whole-limb shifts.
ShlLimbs(x, q) == [i \in Limbs |-> IF i > q THEN x[i - q] ELSE 0]

ShrLimbs(x, q) == [i \in Limbs |-> IF i + q \in Limbs THEN x[i + q] ELSE 0]

\* Shifts by r < 16 bits.
ShlBits(x, r) ==
    [i \in Limbs |-> ((x[i] % 2^(LimbBits - r)) * 2^r)
                     + (IF i > 1 THEN x[i - 1] \div 2^(LimbBits - r) ELSE 0)]

ShrBits(x, r) ==
    [i \in Limbs |-> (x[i] \div 2^r)
                     + (IF i + 1 \in Limbs THEN (x[i + 1] % 2^r) * 2^(LimbBits - r) ELSE 0)]

\* self << k and self >> k on u64 (k < 64): bits shifted out are lost.
Shl(x, k) == ShlBits(ShlLimbs(x, k \div LimbBits), k % LimbBits)

Shr(x, k) == ShrBits(ShrLimbs(x, k \div LimbBits), k % LimbBits)

\* Bitwise or of two naturals.
RECURSIVE OrNat(_, _)
OrNat(m, n) ==
    IF m = 0 THEN n
    ELSE IF n = 0 THEN m
    ELSE (IF m % 2 = 1 \/ n % 2 = 1 THEN 1 ELSE 0) + 2 * OrNat(m \div 2, n \div 2)

BitOr(x, y) == [i \in Limbs |-> OrNat(x[i], y[i])]

\* Whether self << k drops a set bit (k < 16).
ShlLoses(x, k) == x[W64 \div LimbBits] \div 2^(LimbBits - k) # 0

\* The value of the low k bits (k <= 16).
LowNat(x, k) == x[1] % 2^k

\* x as u8.
AsU8(x) == LowNat(x, 8)

\* Unsigned comparison of a u64 with a natural n <= 2^16.
U64LtNat(x, n) == x[1] < n /\ \A i \in Limbs : i > 1 => x[i] = 0

\* Unsigned comparison of two u64.
U64Lt(x, y) ==
    \E i \in Limbs : x[i] < y[i] /\ \A j \in Limbs : j > i => x[j] = y[j]

\* The number of bits of a natural.
RECURSIVE BitLen(_)
BitLen(n) == IF n = 0 THEN 0 ELSE 1 + BitLen(n \div 2)

\* u64::leading_zeros.
leading_zeros(x) ==
    IF x = U64Zero THEN W64
    ELSE LET top == CHOOSE i \in Limbs : x[i] # 0 /\ \A j \in Limbs : j > i => x[j] = 0
         IN  W64 - ((top - 1) * LimbBits + BitLen(x[top]))

\* The carry out of limb i of x + n, for a natural n < 2^16.
RECURSIVE CarryOut(_, _, _)
CarryOut(x, n, i) ==
    IF i = 0 THEN 0
    ELSE (x[i] + (IF i = 1 THEN n ELSE 0) + CarryOut(x, n, i - 1)) \div LimbBase

\* x + n modulo 2^64, and whether the sum left the word.
WrappingAdd(x, n) ==
    [i \in Limbs |-> (x[i] + (IF i = 1 THEN n ELSE 0) + CarryOut(x, n, i - 1)) % LimbBase]

AddOverflows(x, n) == CarryOut(x, n, W64 \div LimbBits) = 1

\* u64::checked_shl(rhs): None only when rhs >= 64; the shift itself wraps.
checked_shl(x, rhs) ==
    IF rhs < W64 THEN [some |-> TRUE, val |-> Shl(x, rhs)]
    ELSE [some |-> FALSE, val |-> U64Zero]

\* ---------------------------------------------------------------- enums

\* WorldRegion is repr(u8) R0..R9; RegionHalf is Pyramid = 0, Antiprism = 1.
WorldRegion == 0..9

Pyramid == 0

Antiprism == 1

RegionHalf == {Pyramid, Antiprism}

NorthSouth == 0

Center == 1

West == 2

East == 3

HorizontalSubdivision == {NorthSouth, Center, West, East}

Lower == 0

Upper == 4

VerticalSubdivision == {Lower, Upper}

is_south(region) == region \in 5..9

\* WorldRegion::from_u8_unchecked transmutes idx.  Its safety contract is
\* idx in 0..10; outside it the value is an invalid enum (undefined
\* behaviour): the build may carry the raw byte or act as any variant.
WorldRegion_from_u8_unchecked(idx) ==
    IF idx \in WorldRegion THEN {idx} ELSE WorldRegion \cup {idx}

RegionHalf_from_u8_unchecked(idx) ==
    IF idx \in RegionHalf THEN {idx} ELSE RegionHalf \cup {idx}

\* ------------------------------------------------------- result values

Ok(idx) == [tag |-> "Ok", idx |-> idx]

Err == [tag |-> "Err", idx |-> U64Zero]

Panic == [tag |-> "Panic", idx |-> U64Zero]

\* Self::from_u64_unchecked(raw) wrapped in Ok.  Its safety contract is
\* raw != 0.  With raw = 0 (undefined behaviour) the zero sits in the niche
\* that encodes Err, a build with the unsafe-precondition check panics, and
\* an optimised build may carry the zero on as an index.
OkUnchecked(raw) ==
    IF raw # U64Zero THEN {Ok(raw)} ELSE {Ok(raw), Err, Panic}

OkRange(first, last) == [tag |-> "Ok", start |-> first, end |-> last]

ErrRange == [tag |-> "Err", start |-> U64Zero, end |-> U64Zero]

PanicRange == [tag |-> "Panic", start |-> U64Zero, end |-> U64Zero]

\* Ok(from_u64_unchecked(first)..from_u64_unchecked(first + n)): the sum
\* panics on overflow in a build with overflow checks and wraps otherwise.
OkRangeUnchecked(first, n) ==
    LET last == WrappingAdd(first, n)
        wraps == AddOverflows(first, n)
    IN  (IF wraps THEN {PanicRange} ELSE {})
        \cup (IF first # U64Zero /\ last # U64Zero
              THEN {OkRange(first, last)}
              ELSE {OkRange(first, last), ErrRange, PanicRange})

Some2(region, half) == [some |-> TRUE, region |-> region, half |-> half]

None2 == [some |-> FALSE, region |-> 0, half |-> 0]

OkRegion(region, half) == [tag |-> "Ok", region |-> region, half |-> half]

PanicRegion == [tag |-> "Panic", region |-> 0, half |-> 0]

\* --------------------------------------------------------- QuadtreeIndex

Quadtree_from_region(region, triangle) ==
    BitOr(BitOr(Shl(U64FromNat(region), 1), U64FromNat(triangle)), U64FromNat(32))

\* depth(): bits = 58 - leading_zeros (u32), debug_assert!(bits % 2 == 0),
\* bits / 2.  The subtraction underflows for leading_zeros > 58: a panic
\* with overflow checks, 2^32 - m without.
Quadtree_depth(self) ==
    LET lz == leading_zeros(self) IN
    IF lz > 58
    THEN {[tag |-> "Panic", val |-> 0],
          [tag |-> "Ok", val |-> 2147483647 - ((lz - 58 - 1) \div 2)]}
    ELSE (IF (58 - lz) % 2 # 0 THEN {[tag |-> "Panic", val |-> 0]} ELSE {})
         \cup {[tag |-> "Ok", val |-> (58 - lz) \div 2]}

Quadtree_children(self) ==
    LET s == checked_shl(self, 2) IN
    IF ~s.some THEN {ErrRange} ELSE OkRangeUnchecked(s.val, 4)

\* A quadtree child step that shifts by the octree's 3 bits.
Quadtree_child_shl3(self, horiz) ==
    LET s == checked_shl(self, 3) IN
    IF ~s.some THEN {Err} ELSE OkUnchecked(BitOr(s.val, U64FromNat(horiz)))

Quadtree_child(self, horiz) ==
    LET s == checked_shl(self, 2) IN
    IF ~s.some THEN {Err} ELSE OkUnchecked(BitOr(s.val, U64FromNat(horiz)))
\* A quadtree parent step whose root test also takes the indices of depth 1
\* for roots.
Quadtree_parent_wide(self) ==
    IF U64LtNat(self, 512)
    THEN [some |-> FALSE, idx |-> U64Zero, horiz |-> 0]
    ELSE [some |-> TRUE, idx |-> Shr(self, 2), horiz |-> LowNat(self, 2)]

Quadtree_parent(self) ==
    IF U64LtNat(self, 128)
    THEN [some |-> FALSE, idx |-> U64Zero, horiz |-> 0]
    ELSE [some |-> TRUE, idx |-> Shr(self, 2), horiz |-> LowNat(self, 2)]

\* A root test whose threshold also admits the 8-bit indices of depth 1.
Quadtree_is_root_wide(self) ==
    IF U64LtNat(self, 255)
    THEN {Some2(r, t) : r \in WorldRegion_from_u8_unchecked(AsU8(self) \div 2),
                        t \in RegionHalf_from_u8_unchecked(AsU8(self) % 2)}
    ELSE {None2}

Quadtree_is_root(self) ==
    IF U64LtNat(self, 63)
    THEN {Some2(r, t) : r \in WorldRegion_from_u8_unchecked(AsU8(self) \div 2),
                        t \in RegionHalf_from_u8_unchecked(AsU8(self) % 2)}
    ELSE {None2}

\* region(): shift = 58 - leading_zeros, raw = self >> shift.  For
\* leading_zeros > 58 the subtraction underflows: a panic with overflow
\* checks, otherwise the shift amount is taken modulo 64.
Quadtree_region(self) ==
    LET lz == leading_zeros(self)
        raw == Shr(self, (58 - lz + W64) % W64)
    IN  (IF lz > 58 THEN {PanicRegion} ELSE {})
        \cup {OkRegion(r, t) : r \in WorldRegion_from_u8_unchecked(AsU8(raw) \div 2),
                               t \in RegionHalf_from_u8_unchecked(AsU8(raw) % 2)}

\* ----------------------------------------------------------- OctreeIndex

Octree_from_region(region, triangle) ==
    BitOr(BitOr(Shl(U64FromNat(region), 1), U64FromNat(triangle)), U64FromNat(32))
\* An octree depth that reports the bit count above the root's six bits.
Octree_depth_bits(self) ==
    LET lz == leading_zeros(self) IN
    IF lz > 58
    THEN {[tag |-> "Panic", val |-> 0]}
    ELSE {[tag |-> "Ok", val |-> 58 - lz]}

\* depth(): as the quadtree's, with bits % 3 and bits / 3.
Octree_depth(self) ==
    LET lz == leading_zeros(self) IN
    IF lz > 58
    THEN {[tag |-> "Panic", val |-> 0],
          [tag |-> "Ok", val |-> 1431655765 - ((lz - 58 + 1) \div 3)]}
    ELSE (IF (58 - lz) % 3 # 0 THEN {[tag |-> "Panic", val |-> 0]} ELSE {})
         \cup {[tag |-> "Ok", val |-> (58 - lz) \div 3]}
\* An octree children() whose range has the quadtree's 4 members.
Octree_children_4(self) ==
    LET s == checked_shl(self, 3) IN
    IF ~s.some THEN {ErrRange} ELSE OkRangeUnchecked(s.val, 4)

Octree_children(self) ==
    LET s == checked_shl(self, 3) IN
    IF ~s.some THEN {ErrRange} ELSE OkRangeUnchecked(s.val, 8)
\* An octree child step that leaves out the vertical bit.
Octree_child_flat(self, horiz, vert) ==
    LET s == checked_shl(self, 3) IN
    IF ~s.some THEN {Err}
    ELSE OkUnchecked(BitOr(s.val, U64FromNat(horiz)))

\* An octree child step that puts the vertical bit below the horizontal
\* pair.
Octree_child_vfirst(self, horiz, vert) ==
    LET s == checked_shl(self, 3) IN
    IF ~s.some THEN {Err}
    ELSE OkUnchecked(BitOr(BitOr(s.val, U64FromNat(horiz * 2)), U64FromNat(vert \div 4)))

Octree_child(self, horiz, vert) ==
    LET s == checked_shl(self, 3) IN
    IF ~s.some THEN {Err}
    ELSE OkUnchecked(BitOr(BitOr(s.val, U64FromNat(horiz)), U64FromNat(vert)))

\* An octree parent step that shifts by the quadtree's 2 bits.
Octree_parent_shr2(self) ==
    IF U64LtNat(self, 128)
    THEN [some |-> FALSE, idx |-> U64Zero, horiz |-> 0, vert |-> 0]
    ELSE [some |-> TRUE, idx |-> Shr(self, 2),
          horiz |-> LowNat(self, 2), vert |-> LowNat(self, 3) - LowNat(self, 2)]

Octree_parent(self) ==
    IF U64LtNat(self, 128)
    THEN [some |-> FALSE, idx |-> U64Zero, horiz |-> 0, vert |-> 0]
    ELSE [some |-> TRUE, idx |-> Shr(self, 3),
          horiz |-> LowNat(self, 2), vert |-> LowNat(self, 3) - LowNat(self, 2)]

Octree_is_root(self) ==
    IF U64LtNat(self, 63)
    THEN {Some2(r, t) : r \in WorldRegion_from_u8_unchecked(AsU8(self) \div 2),
                        t \in RegionHalf_from_u8_unchecked(AsU8(self) % 2)}
    ELSE {None2}

Octree_region(self) ==
    LET lz == leading_zeros(self)
        raw == Shr(self, (58 - lz + W64) % W64)
    IN  (IF lz > 58 THEN {PanicRegion} ELSE {})
        \cup {OkRegion(r, t) : r \in WorldRegion_from_u8_unchecked(AsU8(raw) \div 2),
                               t \in RegionHalf_from_u8_unchecked(AsU8(raw) % 2)}

\* ------------------------------------------------------- redb encoding

\* The bytes of a u64.
KeyBytes == W64 \div 8

\* u64::to_le_bytes and u64::from_le_bytes: byte 1 is the least significant.
to_le_bytes(x) ==
    [k \in 1..KeyBytes |-> (x[((k - 1) \div 2) + 1] \div (256 ^ ((k - 1) % 2))) % 256]

from_le_bytes(buf) == [i \in Limbs |-> buf[2 * i - 1] + 256 * buf[2 * i]]

\* u64::to_be_bytes: byte 1 is the most significant.
to_be_bytes(x) == [k \in 1..KeyBytes |-> to_le_bytes(x)[KeyBytes + 1 - k]]

\* redb::Value::fixed_width() returns Some(4) for both index types.
Quadtree_fixed_width == 4

Octree_fixed_width == 4

Quadtree_as_bytes(value) == to_le_bytes(value)

Octree_as_bytes(value) == to_le_bytes(value)

\* from_bytes: &data[..8] panics on a shorter slice, and expect panics on
\* a zero integer.
Quadtree_from_bytes(data) ==
    IF Len(data) < KeyBytes THEN Panic
    ELSE LET raw == from_le_bytes(SubSeq(data, 1, KeyBytes)) IN
         IF raw = U64Zero THEN Panic ELSE Ok(raw)

Octree_from_bytes(data) ==
    IF Len(data) < KeyBytes THEN Panic
    ELSE LET raw == from_le_bytes(SubSeq(data, 1, KeyBytes)) IN
         IF raw = U64Zero THEN Panic ELSE Ok(raw)

\* u64::cmp
u64_cmp(x, y) == IF U64Lt(x, y) THEN "Less" ELSE IF x = y THEN "Equal" ELSE "Greater"

\* redb::Key::compare
Quadtree_compare(data1, data2) ==
    IF Len(data1) < KeyBytes \/ Len(data2) < KeyBytes THEN "Panic"
    ELSE u64_cmp(from_le_bytes(SubSeq(data1, 1, KeyBytes)),
                 from_le_bytes(SubSeq(data2, 1, KeyBytes)))
\* A comparator that orders the encoded keys byte by byte, first byte first.
Octree_compare_bytewise(data1, data2) ==
    IF Len(data1) < KeyBytes \/ Len(data2) < KeyBytes THEN "Panic"
    ELSE IF \E k \in 1..KeyBytes :
               data1[k] < data2[k] /\ \A j \in 1..(k - 1) : data1[j] = data2[j]
    THEN "Less"
    ELSE IF SubSeq(data1, 1, KeyBytes) = SubSeq(data2, 1, KeyBytes) THEN "Equal"
    ELSE "Greater"

Octree_compare(data1, data2) ==
    IF Len(data1) < KeyBytes \/ Len(data2) < KeyBytes THEN "Panic"
    ELSE u64_cmp(from_le_bytes(SubSeq(data1, 1, KeyBytes)),
                 from_le_bytes(SubSeq(data2, 1, KeyBytes)))

\* ------------------------------------------------- barycentric subdivider

QMaxDepth == 29

OMaxDepth == 19

HALF == 268435456

ONE == 536870912
\* A subdivide that does not mask the doubled coordinate of the corner
\* child it descends into.
subdivide_unmasked(n2w, n2e) ==
    IF n2w > HALF
    THEN [h |-> West, n2w |-> n2w * 2, n2e |-> n2e * 2]
    ELSE IF n2e > HALF
    THEN [h |-> East, n2w |-> n2w * 2, n2e |-> n2e * 2]
    ELSE IF n2w + n2e >= HALF
    THEN [h |-> Center, n2w |-> ONE - n2w * 2, n2e |-> ONE - n2e * 2]
    ELSE [h |-> NorthSouth, n2w |-> n2w * 2, n2e |-> n2e * 2]

\* HorizontalSubdivision::subdivide on u32 fractions scaled by 2^29.  MASK
\* is ONE - 1, so x & MASK is x % ONE.  Under the debug-asserted
\* precondition n2w + n2e <= ONE no shift leaves the 32-bit word.
subdivide(n2w, n2e) ==
    IF n2w > HALF
    THEN [h |-> West, n2w |-> (n2w * 2) % ONE, n2e |-> n2e * 2]
    ELSE IF n2e > HALF
    THEN [h |-> East, n2w |-> n2w * 2, n2e |-> (n2e * 2) % ONE]
    ELSE IF n2w + n2e >= HALF
    THEN [h |-> Center, n2w |-> ONE - n2w * 2, n2e |-> ONE - n2e * 2]
    ELSE [h |-> NorthSouth, n2w |-> n2w * 2, n2e |-> n2e * 2]

\* The octree's altitude fraction: HALF = 1 << 18, MASK = (HALF << 1) - 1.
ALT_HALF == 262144

\* alt.mul_add(1.0 / 16.0, HALF) as u32 for an altitude in whole metres.
altitude_fraction(alt) == ALT_HALF + (alt \div 16)

vertical(a) == IF a > ALT_HALF THEN Upper ELSE Lower

altitude_next(a) == (a * 2) % (ALT_HALF * 2)

\* ------------------------------------------------------------ projector

\* Coordinates are f64 in the source.  Here a float is an integer number of
\* units with at most MantBits significant bits, and every float operation
\* is the exact operation followed by one rounding to nearest, ties to
\* even, as IEEE 754 prescribes.  Longitudes count units of
\* FRAC_PI_5 / LonDiv and latitudes units of TRANS_LAT / LatDiv.
MantBits == 3

LonDiv == 4

LatDiv == 8

\* The number of mant significant bits nearest to n / d (d > 0).
flqm(mant, n, d) ==
    LET m == IF n < 0 THEN -n ELSE n
        bits == BitLen(m \div d)
        q == IF bits > mant THEN 2^(bits - mant) ELSE 1
        lo == m \div (d * q)
        r == m - lo * d * q
        up == 2 * r > d * q \/ (2 * r = d * q /\ lo % 2 = 1)
        v == (IF up THEN lo + 1 ELSE lo) * q
    IN  IF n < 0 THEN -v ELSE v

\* The float nearest to n / d (d > 0).
flq(n, d) == flqm(MantBits, n, d)

fl(v) == flq(v, 1)

TAU == 10 * LonDiv

FRAC_2PI_5 == 2 * LonDiv

FRAC_PI_5 == LonDiv

TRANS_LAT == LatDiv

\* f64::rem_euclid: r = a % b (exact, with the sign of a), and r + |b|
\* when r is negative (b > 0 here).
rem_euclid(a, b) ==
    LET r == IF a < 0 THEN -((-a) % b) ELSE a % b
    IN  IF r < 0 THEN fl(r + b) ELSE r

\* x.mul_add(sign * CENTER_SLOPE, c * TRANS_LAT), one rounding.
\* CENTER_SLOPE = TRANS_LAT * 2 / FRAC_PI_5 turns a longitude into a
\* latitude: 2 * TRANS_LAT latitude units per FRAC_PI_5 longitude units.
mul_add_slope(x, sign, c) ==
    flq(sign * x * 2 * TRANS_LAT + c * TRANS_LAT * FRAC_PI_5, FRAC_PI_5)

\* FRAC_PI_2 is about 2.8375 * TRANS_LAT = 227 / 80 * TRANS_LAT.
PoleNum == 227 * LatDiv

PoleDen == 80

LatMax == PoleNum \div PoleDen

\* lat.cos() as the fraction n / d: 1 - (lat / FRAC_PI_2)^2, which is 1 at
\* the equator, falls towards the poles and is positive between them.
cos(lat) ==
    [n |-> PoleNum * PoleNum - (lat * PoleDen) * (lat * PoleDen),
     d |-> PoleNum * PoleNum]

\* The longitudes of [-FRAC_2PI_5, TAU) and the latitudes of
\* [-FRAC_PI_2, FRAC_PI_2] that are floats.
Lons == {v \in (-FRAC_2PI_5)..(TAU - 1) : fl(v) = v}

Lats == {v \in (-LatMax)..LatMax : fl(v) = v}

\* (q / FRAC_2PI_5) as u8 for 0 <= q.
center_of(q) == q \div FRAC_2PI_5

region_offset_raw(lon, lat) ==
    LET c == cos(lat) IN
    IF lat > TRANS_LAT
    THEN [region |-> center_of(rem_euclid(lon, TAU)),
          x |-> flq(fl(rem_euclid(lon, FRAC_2PI_5) - FRAC_PI_5) * c.n, c.d),
          y |-> fl(lat - TRANS_LAT)]
    ELSE IF lat < -TRANS_LAT
    THEN [region |-> center_of(rem_euclid(fl(lon + FRAC_PI_5), TAU)) + 5,
          x |-> flq(fl(rem_euclid(fl(lon + FRAC_PI_5), FRAC_2PI_5) - FRAC_PI_5) * c.n, c.d),
          y |-> fl(lat + TRANS_LAT)]
    ELSE LET center == center_of(rem_euclid(lon, TAU))
             y == fl(lat - TRANS_LAT)
             x == fl(rem_euclid(fl(lon + FRAC_2PI_5), FRAC_2PI_5) - FRAC_PI_5)
         IN  IF x > 0
             THEN IF y < mul_add_slope(x, 1, -2)
                  THEN [region |-> IF center = 4 THEN 5 ELSE center + 6,
                        x |-> flq(fl(x - FRAC_PI_5) * c.n, c.d),
                        y |-> fl(y + TRANS_LAT * 2)]
                  ELSE [region |-> center, x |-> flq(x * c.n, c.d), y |-> y]
             ELSE IF y < mul_add_slope(x, -1, -2)
                  THEN [region |-> center + 5,
                        x |-> flq(fl(x + FRAC_PI_5) * c.n, c.d),
                        y |-> fl(y + TRANS_LAT * 2)]
                  ELSE [region |-> center, x |-> flq(x * c.n, c.d), y |-> y]

region_offset(lon, lat) ==
    LET raw == region_offset_raw(lon, lat) IN
    {[region |-> r, x |-> raw.x, y |-> raw.y] :
        r \in WorldRegion_from_u8_unchecked(raw.region)}

\* region_raw: the region in the upper bits, the region half in bit 0.
region_raw(lon, lat) ==
    IF lat > TRANS_LAT
    THEN center_of(rem_euclid(lon, TAU)) * 2
    ELSE IF lat < -TRANS_LAT
    THEN (center_of(rem_euclid(fl(lon + FRAC_PI_5), TAU)) + 5) * 2
    ELSE LET center == center_of(rem_euclid(lon, TAU))
             x == fl(rem_euclid(fl(lon + FRAC_2PI_5), FRAC_2PI_5) - FRAC_PI_5)
         IN  IF x > 0
             THEN IF lat < mul_add_slope(x, 1, -1)
                  THEN (IF center = 4 THEN 5 ELSE center + 6) * 2 + 1
                  ELSE center * 2 + 1
             ELSE IF lat < mul_add_slope(x, -1, -1)
                  THEN (center + 5) * 2 + 1
                  ELSE center * 2 + 1

\* ico::region
ico_region(lon, lat) ==
    LET raw == region_raw(lon, lat) IN
    {[region |-> r, half |-> t] :
        r \in WorldRegion_from_u8_unchecked(raw \div 2),
        t \in RegionHalf_from_u8_unchecked(raw % 2)}

\* unproject_raw for region < 10 (the result is unspecified otherwise).
unproject_raw(region, offset) ==
    LET clon == IF region < 5 THEN fl(fl(region * FRAC_2PI_5) + FRAC_PI_5)
                ELSE fl((region - 5) * FRAC_2PI_5)
        clat == IF region < 5 THEN TRANS_LAT ELSE -TRANS_LAT
        lat == fl(offset.y + clat)
        c == cos(lat)
        lon == fl(clon + (IF c.n = 0 THEN 0 ELSE flq(offset.x * c.d, c.n)))
    IN  [lon |-> rem_euclid(lon, TAU), lat |-> lat]

unproject(region, offset) == unproject_raw(region, offset)

\* ----------------------------------------------- float subdivider

\* Barycentric floats count units of 2^-FracBits: FloatOne is 1.0.
FracBits == 5

FloatOne == 2^FracBits

FloatHalf == FloatOne \div 2

\* An f64 subdivide that takes the centre only when the sum exceeds 0.5.
subdivide_floats_strict(fw, fe) ==
    IF fw > FloatHalf
    THEN [h |-> West, n2w |-> fl(fw * 2 - FloatOne), n2e |-> fl(fe * 2)]
    ELSE IF fe > FloatHalf
    THEN [h |-> East, n2w |-> fl(fw * 2), n2e |-> fl(fe * 2 - FloatOne)]
    ELSE IF fl(fw + fe) > FloatHalf
    THEN [h |-> Center, n2w |-> fl(FloatOne - fw * 2), n2e |-> fl(FloatOne - fe * 2)]
    ELSE [h |-> NorthSouth, n2w |-> fl(fw * 2), n2e |-> fl(fe * 2)]

\* f64::MANTISSA_DIGITS: an f64 carries 53 significant bits.
F64Mant == 53

\* HorizontalSubdivision::subdivide_floats on floats of mant significant
\* bits that count units of 1 / one; mul_add rounds once.
subdivide_floats_at(mant, one, fw, fe) ==
    IF 2 * fw > one
    THEN [h |-> West, n2w |-> flqm(mant, fw * 2 - one, 1), n2e |-> flqm(mant, fe * 2, 1)]
    ELSE IF 2 * fe > one
    THEN [h |-> East, n2w |-> flqm(mant, fw * 2, 1), n2e |-> flqm(mant, fe * 2 - one, 1)]
    ELSE IF 2 * flqm(mant, fw + fe, 1) >= one
    THEN [h |-> Center, n2w |-> flqm(mant, one - fw * 2, 1),
          n2e |-> flqm(mant, one - fe * 2, 1)]
    ELSE [h |-> NorthSouth, n2w |-> flqm(mant, fw * 2, 1), n2e |-> flqm(mant, fe * 2, 1)]

\* subdivide_floats on the floats of the model.
subdivide_floats(fw, fe) == subdivide_floats_at(MantBits, FloatOne, fw, fe)

\* The root triangle hash starts from (tree.rs, first lines of hash).
hash_half(base, off) ==
    IF is_south(base) # (off.y < 0) THEN Antiprism ELSE Pyramid

\* The fractions hash derives from the offset: base_transform(hemi, half)
\* * (off + (0, base_y_shift(hemi, half))), times 2^29, as u32.  The
\* product is a float computation; what it can yield is over-approximated
\* by a sample of the pairs that meet subdivide's precondition, among them
\* the vertices, the edge midpoints and the ties at HALF.
FracValues == {0, 1, 89478485, 178956970, HALF, HALF + 1, 357913941, ONE}

barycentric_fractions(base, half, off) ==
    {f \in FracValues \X FracValues : f[1] + f[2] <= ONE}

\* Altitudes in metres; hash documents |alt| < 32768.
AltSamples == {-32767, -1, 0, 16, 4000}

\* ---------------------------------------------------------------- state

VARIABLES
    wkind,      \* index walk: "quad", "oct", or "none" when a hash call runs
    wroot,      \* the <<region, triangle>> the walk started from
    widx,       \* the index the walk stands on
    wpat,       \* the two selectors the walk's child steps alternate between:
                \* any first one, and a second one of all zero or all one bits
    wlen,       \* child steps taken minus parent steps taken
    wover,      \* child steps taken since the first whose shift dropped a set bit
    wop,        \* the last operation called
    wres,       \* and the tag of what it returned
    hkind,      \* hash call: "quad", "oct", or "none" when an index walk runs
    hlon, hlat, halt,   \* the arguments, until they are consumed
    hpc,        \* "call", "loop", "done", "panic" (or "idle")
    hbase,      \* the local base: the projector's region
    hidx,       \* the local index
    hvisited,   \* the index last passed to visit
    hprev,      \* the index passed to visit before that
    hseen,      \* every index passed to visit, in order
    n2w, n2e,   \* the fixed-point fractions
    a,          \* the fixed-point altitude
    visits,     \* calls of visit made
    hret,       \* the value returned
    kkind,      \* key pair: "quad", "oct", or "none" when no pair is followed
    kroot,      \* the two root codes (region << 1 | triangle)
    kpat,       \* per key, the two selector codes its child steps alternate between
    kpath,      \* per key, the selector codes of the child steps taken
    kidx,       \* the two indices
    kres,       \* the tags the last pair of child calls returned
    kbytes,     \* the two keys as stored: as_bytes of each (<<>> until stored)
    kcmp,       \* what Key::compare answered on the stored bytes ("-" before)
    kload,      \* what from_bytes returned for each (<<>> until loaded)
    plon, plat, \* projector: the coordinate given
    ppc,        \* "call", "offset", "region", "done" (or "idle")
    pro,        \* what region_offset returned
    preg,       \* what region returned
    pun,        \* what unproject returned for pro
    skind,      \* subdivider: "fixed", "floats", or "none"
    sn2w, sn2e, \* the coordinates the next call is given
    sprev,      \* the coordinates the last call was given
    sh,         \* the child the last call returned
    ssteps,     \* calls made
    aalt,       \* altitude pair: two altitudes, the lesser first (<<>> when idle)
    afrac,      \* the fixed-point altitude a of each
    avert,      \* per altitude, the vertical children chosen so far
    tlon, tlat, talt,   \* twin calls: the arguments both hash calls are given
    tpc,        \* "call", "loop" (or "idle")
    troot,      \* the (region, half) each call starts from: quadtree's, octree's
    tidx,       \* the local index of each call: quadtree's, octree's
    tfrac,      \* the fixed-point fractions <<n2w, n2e>> of each call
    ta,         \* the fixed-point altitude of the octree call
    thoriz      \* per call, the horizontal children chosen so far

wvars == <<wkind, wroot, widx, wpat, wlen, wover, wop, wres>>

hvars == <<hkind, hlon, hlat, halt, hpc, hbase, hidx, hvisited, hprev, hseen,
           n2w, n2e, a, visits, hret>>

kvars == <<kkind, kroot, kpat, kpath, kidx, kres, kbytes, kcmp, kload>>

pvars == <<plon, plat, ppc, pro, preg, pun>>

svars == <<skind, sn2w, sn2e, sprev, sh, ssteps>>

avars == <<aalt, afrac, avert>>

tvars == <<tlon, tlat, talt, tpc, troot, tidx, tfrac, ta, thoriz>>

vars == <<wvars, hvars, kvars, pvars, svars, avars, tvars>>

\* How many calls of one subdivide run are followed.
MaxSubdivisions == 4

\* How many visits of one hash call are followed.
MaxVisits == 32

\* How many child steps past the 64-bit capacity a walk follows.
OverflowSteps == 1

Payloads == {"r1", "r2"}

\* What visit may answer: Continue(()) or Break(r).
Flow == {[brk |-> FALSE, r |-> "-"]} \cup {[brk |-> TRUE, r |-> p] : p \in Payloads}

NoReturn == [index |-> U64Zero, payload |-> "-", r |-> "-"]

Selectors == [h : HorizontalSubdivision, v : VerticalSubdivision]

WalkIdle ==
    /\ wkind = "none" /\ wroot = <<>> /\ widx = U64Zero /\ wpat = <<>> /\ wlen = 0
    /\ wover = 0 /\ wop = "-" /\ wres = "-"

HashIdle ==
    /\ hkind = "none" /\ hlon = 0 /\ hlat = 0 /\ halt = 0 /\ hpc = "idle"
    /\ hbase = 0 /\ hidx = U64Zero /\ hvisited = U64Zero /\ hprev = U64Zero
    /\ hseen = <<>>
    /\ n2w = 0 /\ n2e = 0 /\ a = 0 /\ visits = 0 /\ hret = NoReturn

NoOffset == [region |-> 0, x |-> 0, y |-> 0]

NoRegion == [region |-> 0, half |-> 0]

NoLonLat == [lon |-> 0, lat |-> 0]

SubdivideIdle ==
    /\ skind = "none" /\ sn2w = 0 /\ sn2e = 0 /\ sprev = <<0, 0>>
    /\ sh = NorthSouth /\ ssteps = 0

IcoIdle ==
    /\ plon = 0 /\ plat = 0 /\ ppc = "idle"
    /\ pro = NoOffset /\ preg = NoRegion /\ pun = NoLonLat

AltitudeIdle == aalt = <<>> /\ afrac = <<>> /\ avert = <<>>

TwinIdle ==
    /\ tlon = 0 /\ tlat = 0 /\ talt = 0 /\ tpc = "idle"
    /\ troot = <<>> /\ tidx = <<>> /\ tfrac = <<>> /\ ta = 0 /\ thoriz = <<>>

KeysIdle ==
    /\ kkind = "none" /\ kroot = <<>> /\ kpat = <<>> /\ kpath = <<>>
    /\ kidx = <<>> /\ kres = <<>>
    /\ kbytes = <<>> /\ kcmp = "-" /\ kload = <<>>

\* An index walk starts at from_region(region, triangle).
InitWalk ==
    /\ HashIdle /\ KeysIdle /\ IcoIdle /\ SubdivideIdle /\ AltitudeIdle /\ TwinIdle
    /\ wkind \in {"quad", "oct"}
    /\ wroot \in WorldRegion \X RegionHalf
    /\ widx = IF wkind = "quad" THEN Quadtree_from_region(wroot[1], wroot[2])
              ELSE Octree_from_region(wroot[1], wroot[2])
    /\ wpat \in {p \in Selectors \X Selectors :
                    /\ wkind = "quad" => p[1].v = Lower /\ p[2].v = Lower
                    /\ p[2].h \in {NorthSouth, East}
                    /\ wkind = "oct" => (p[2].v = Upper <=> p[2].h = East)}
    /\ wlen = 0 /\ wover = 0 /\ wop = "from_region" /\ wres = "Ok"

\* A hash call is entered with its arguments.
InitHash ==
    /\ WalkIdle /\ KeysIdle /\ IcoIdle /\ SubdivideIdle /\ AltitudeIdle /\ TwinIdle
    /\ hkind \in {"quad", "oct"}
    /\ hlon \in Lons /\ hlat \in Lats
    /\ halt \in IF hkind = "oct" THEN AltSamples ELSE {0}
    /\ hpc = "call"
    /\ hbase = 0 /\ hidx = U64Zero /\ hvisited = U64Zero /\ hprev = U64Zero
    /\ hseen = <<>>
    /\ n2w = 0 /\ n2e = 0 /\ a = 0 /\ visits = 0 /\ hret = NoReturn

\* The root codes (region << 1 | triangle) a key pair starts from: the
\* first, a middle and the last root.
KeyRoots == {0, 9, 19}

KeyCodes(kind) == IF kind = "quad" THEN 0..3 ELSE 0..7

\* The pairs of selector codes a key alternates between: a first one with
\* each horizontal part and a vertical part of either kind, and a second
\* one of all zero or all one bits.
KeyPatterns(kind) ==
    IF kind = "quad" THEN (0..3) \X {0, 3} ELSE {0, 1, 6, 7} \X {0, 7}

\* Two keys of one type start at from_region.
InitKeys ==
    /\ WalkIdle /\ HashIdle /\ IcoIdle /\ SubdivideIdle /\ AltitudeIdle /\ TwinIdle
    /\ kkind \in {"quad", "oct"}
    /\ kroot \in KeyRoots \X KeyRoots
    /\ kpat \in KeyPatterns(kkind) \X KeyPatterns(kkind)
    /\ kpath = <<<<>>, <<>>>>
    /\ kidx = [i \in 1..2 |->
                 IF kkind = "quad"
                 THEN Quadtree_from_region(kroot[i] \div 2, kroot[i] % 2)
                 ELSE Octree_from_region(kroot[i] \div 2, kroot[i] % 2)]
    /\ kres = <<"Ok", "Ok">>
    /\ kbytes = <<>> /\ kcmp = "-" /\ kload = <<>>

\* A coordinate is given to the projector.
InitIco ==
    /\ WalkIdle /\ HashIdle /\ KeysIdle /\ SubdivideIdle /\ AltitudeIdle /\ TwinIdle
    /\ plon \in Lons /\ plat \in Lats
    /\ ppc = "call"
    /\ pro = NoOffset /\ preg = NoRegion /\ pun = NoLonLat

\* The fixed-point coordinates a subdivide run may start from: the corners,
\* the ties at HALF and their neighbours, and quarter points.
FixSamples ==
    {0, 1, HALF \div 2, HALF - 1, HALF, HALF + 1, HALF + HALF \div 2, ONE - 1, ONE}

\* The float coordinates of [0, 1].
FloatSamples == {v \in 0..FloatOne : fl(v) = v}

\* A run of subdivide or of subdivide_floats starts from coordinates that
\* meet the function's debug-asserted precondition.
InitSubdivide ==
    /\ WalkIdle /\ HashIdle /\ KeysIdle /\ IcoIdle /\ AltitudeIdle /\ TwinIdle
    /\ skind \in {"fixed", "floats"}
    /\ sn2w \in IF skind = "fixed" THEN FixSamples ELSE FloatSamples
    /\ sn2e \in IF skind = "fixed" THEN FixSamples ELSE FloatSamples
    /\ IF skind = "fixed" THEN sn2w + sn2e <= ONE ELSE fl(sn2w + sn2e) <= FloatOne
    /\ sprev = <<0, 0>> /\ sh = NorthSouth /\ ssteps = 0

\* The altitudes in metres a pair is drawn from: the ends of the documented
\* range, the steps of 16 m around 0 and around a quarter of the range.
AltPairSamples ==
    {-32767, -16400, -16384, -17, -16, -1, 0, 15, 16, 17, 4000, 16368, 16384, 32767}

\* OctreeIndex::hash is entered twice at one (lon, lat) with two altitudes:
\* each call derives its fixed-point altitude.
InitAltitude ==
    /\ WalkIdle /\ HashIdle /\ KeysIdle /\ IcoIdle /\ SubdivideIdle /\ TwinIdle
    /\ aalt \in {p \in AltPairSamples \X AltPairSamples : p[1] <= p[2]}
    /\ afrac = [i \in 1..2 |-> altitude_fraction(aalt[i])]
    /\ avert = <<<<>>, <<>>>>

\* QuadtreeIndex::hash and OctreeIndex::hash are entered at one (lon, lat),
\* the octree's with an altitude.
InitTwin ==
    /\ WalkIdle /\ HashIdle /\ KeysIdle /\ IcoIdle /\ SubdivideIdle /\ AltitudeIdle
    /\ tlon \in Lons /\ tlat \in Lats /\ talt \in AltSamples
    /\ tpc = "call"
    /\ troot = <<>> /\ tidx = <<>> /\ tfrac = <<>> /\ ta = 0 /\ thoriz = <<>>

Init ==
    InitWalk \/ InitHash \/ InitKeys \/ InitIco \/ InitSubdivide \/ InitAltitude
    \/ InitTwin

\* ----------------------------------------------------------- index walk

\* The selector the walk's next child step takes.
NextSel == wpat[(wlen % 2) + 1]

\* Whether this child step is past the capacity: its shift drops a set
\* bit, or an earlier one did.
PastCapacity(k) == ShlLoses(widx, k) \/ wover > 0

\* Only OverflowSteps child steps are followed past the capacity.
MayShift(k) == PastCapacity(k) => wover < OverflowSteps

WalkChildResult(out, k) ==
    /\ wres' = out.tag
    /\ wop' = "child"
    /\ wover' = IF PastCapacity(k) THEN wover + 1 ELSE wover
    /\ IF out.tag = "Ok"
       THEN widx' = out.idx /\ wlen' = wlen + 1
       ELSE UNCHANGED <<widx, wlen>>
    /\ UNCHANGED <<wkind, wroot, wpat, hvars, kvars, pvars, svars, avars, tvars>>

QuadChild ==
    /\ wkind = "quad" /\ wres # "Panic" /\ MayShift(2)
    /\ \E out \in Quadtree_child(widx, NextSel.h) : WalkChildResult(out, 2)

OctChild ==
    /\ wkind = "oct" /\ wres # "Panic" /\ MayShift(3)
    /\ \E out \in Octree_child(widx, NextSel.h, NextSel.v) : WalkChildResult(out, 3)

WalkParentResult(par) ==
    /\ wop' = "parent"
    /\ wres' = IF par.some THEN "Some" ELSE "None"
    /\ IF par.some
       THEN widx' = par.idx /\ wlen' = wlen - 1
       ELSE UNCHANGED <<widx, wlen>>
    /\ UNCHANGED <<wkind, wroot, wpat, wover, hvars, kvars, pvars, svars, avars, tvars>>

QuadParent ==
    /\ wkind = "quad" /\ wres # "Panic"
    /\ WalkParentResult(Quadtree_parent(widx))

OctParent ==
    /\ wkind = "oct" /\ wres # "Panic"
    /\ WalkParentResult(Octree_parent(widx))

WalkChildrenResult(out) ==
    /\ wop' = "children"
    /\ wres' = out.tag
    /\ UNCHANGED <<wkind, wroot, widx, wpat, wlen, wover, hvars, kvars, pvars, svars, avars, tvars>>

QuadChildren ==
    /\ wkind = "quad" /\ wres # "Panic"
    /\ \E out \in Quadtree_children(widx) : WalkChildrenResult(out)

OctChildren ==
    /\ wkind = "oct" /\ wres # "Panic"
    /\ \E out \in Octree_children(widx) : WalkChildrenResult(out)

NextWalk ==
    \/ QuadChild
    \/ OctChild
    \/ QuadParent
    \/ OctParent
    \/ QuadChildren
    \/ OctChildren

SpecWalk == InitWalk /\ [][NextWalk]_vars

\* ------------------------------------------------------------------ hash

\* visit(index) is called and answers flow: the call is counted, and a
\* Break(r) returns (index, Some(r)).
Visit(index, flow) ==
    /\ hvisited' = index
    /\ hprev' = hvisited
    /\ hseen' = Append(hseen, index)
    /\ visits' = visits + 1
    /\ IF flow.brk
       THEN /\ hpc' = "done"
            /\ hret' = [index |-> index, payload |-> "Some", r |-> flow.r]
       ELSE /\ hpc' = "loop"
            /\ hret' = hret

\* The call up to the loop: project, pick the root triangle, visit it,
\* and derive the fixed-point fractions.
HashEnter(root, ro, flow, f) ==
    /\ hbase' = ro.region
    /\ hidx' = root
    /\ Visit(root, flow)
    /\ IF flow.brk
       THEN n2w' = 0 /\ n2e' = 0 /\ a' = 0
       ELSE /\ n2w' = f[1]
            /\ n2e' = f[2]
            /\ a' = IF hkind = "oct" THEN altitude_fraction(halt) ELSE 0
    /\ hlon' = 0 /\ hlat' = 0 /\ halt' = 0
    /\ UNCHANGED <<hkind, wvars, kvars, pvars, svars, avars, tvars>>

QuadHashStart ==
    /\ hkind = "quad" /\ hpc = "call"
    /\ \E ro \in region_offset(hlon, hlat), flow \in Flow :
          LET half == hash_half(ro.region, ro) IN
          \E f \in barycentric_fractions(ro.region, half, ro) :
             HashEnter(Quadtree_from_region(ro.region, half), ro, flow, f)

OctHashStart ==
    /\ hkind = "oct" /\ hpc = "call"
    /\ \E ro \in region_offset(hlon, hlat), flow \in Flow :
          LET half == hash_half(ro.region, ro) IN
          \E f \in barycentric_fractions(ro.region, half, ro) :
             HashEnter(Octree_from_region(ro.region, half), ro, flow, f)

\* One turn of the loop after subdivide: index.child(..) answered out.
HashTurn(out, flow) ==
    /\ IF out.tag = "Ok"
       THEN /\ hidx' = out.idx
            /\ Visit(out.idx, flow)
       ELSE /\ hpc' = IF out.tag = "Err" THEN "done" ELSE "panic"
            /\ hret' = IF out.tag = "Err"
                       THEN [index |-> hidx, payload |-> "None", r |-> "-"]
                       ELSE hret
            /\ UNCHANGED <<hidx, hvisited, hprev, hseen, visits>>
    /\ UNCHANGED <<hkind, hlon, hlat, halt, hbase, wvars, kvars, pvars, svars, avars, tvars>>

QuadHashStep ==
    /\ hkind = "quad" /\ hpc = "loop" /\ visits < MaxVisits
    /\ LET s == subdivide(n2w, n2e) IN
       /\ n2w' = s.n2w
       /\ n2e' = s.n2e
       /\ a' = a
       /\ \E out \in Quadtree_child(hidx, s.h), flow \in Flow : HashTurn(out, flow)

OctHashStep ==
    /\ hkind = "oct" /\ hpc = "loop" /\ visits < MaxVisits
    /\ LET s == subdivide(n2w, n2e)
           v == vertical(a)
       IN  /\ n2w' = s.n2w
           /\ n2e' = s.n2e
           /\ a' = altitude_next(a)
           /\ \E out \in Octree_child(hidx, s.h, v), flow \in Flow : HashTurn(out, flow)

NextHash ==
    \/ QuadHashStart
    \/ OctHashStart
    \/ QuadHashStep
    \/ OctHashStep

SpecHash == InitHash /\ [][NextHash]_vars

\* -------------------------------------------------------------- key pair

\* The selector code key i takes on its next child step.
KeySel(i) == kpat[i][(Len(kpath[i]) % 2) + 1]

\* Both keys take a child step; a step that does not return Ok ends the
\* pair.  OverflowSteps steps past the documented depth are followed.
KeysChildResult(outs) ==
    /\ kres' = [i \in 1..2 |-> outs[i].tag]
    /\ IF \A i \in 1..2 : outs[i].tag = "Ok"
       THEN /\ kidx' = [i \in 1..2 |-> outs[i].idx]
            /\ kpath' = [i \in 1..2 |-> Append(kpath[i], KeySel(i))]
       ELSE UNCHANGED <<kidx, kpath>>
    /\ UNCHANGED <<kkind, kroot, kpat, kbytes, kcmp, kload, wvars, hvars, pvars, svars, avars, tvars>>

QuadKeysChild ==
    /\ kkind = "quad" /\ kres = <<"Ok", "Ok">> /\ kbytes = <<>>
    /\ Len(kpath[1]) < QMaxDepth + OverflowSteps
    /\ \E o1 \in Quadtree_child(kidx[1], KeySel(1)),
          o2 \in Quadtree_child(kidx[2], KeySel(2)) : KeysChildResult(<<o1, o2>>)

OctKeysChild ==
    /\ kkind = "oct" /\ kres = <<"Ok", "Ok">> /\ kbytes = <<>>
    /\ Len(kpath[1]) < OMaxDepth + OverflowSteps
    /\ \E o1 \in Octree_child(kidx[1], KeySel(1) % 4, KeySel(1) - (KeySel(1) % 4)),
          o2 \in Octree_child(kidx[2], KeySel(2) % 4, KeySel(2) - (KeySel(2) % 4)) :
             KeysChildResult(<<o1, o2>>)

\* Both keys are encoded for storage: Value::as_bytes.  Only indices that
\* are values of their type (nonzero) are stored.
KeysStore ==
    /\ kkind # "none" /\ kbytes = <<>>
    /\ \A i \in 1..2 : kidx[i] # U64Zero
    /\ kbytes' = [i \in 1..2 |-> IF kkind = "quad" THEN Quadtree_as_bytes(kidx[i])
                                 ELSE Octree_as_bytes(kidx[i])]
    /\ UNCHANGED <<kkind, kroot, kpat, kpath, kidx, kres, kcmp, kload,
                   wvars, hvars, pvars, svars, avars, tvars>>

\* The store orders the two encoded keys: Key::compare.
KeysCompare ==
    /\ kbytes # <<>> /\ kcmp = "-"
    /\ kcmp' = IF kkind = "quad" THEN Quadtree_compare(kbytes[1], kbytes[2])
               ELSE Octree_compare(kbytes[1], kbytes[2])
    /\ UNCHANGED <<kkind, kroot, kpat, kpath, kidx, kres, kbytes, kload,
                   wvars, hvars, pvars, svars, avars, tvars>>

\* Both keys are decoded from their stored bytes: Value::from_bytes.
KeysLoad ==
    /\ kbytes # <<>> /\ kcmp # "-" /\ kload = <<>>
    /\ kload' = [i \in 1..2 |-> IF kkind = "quad" THEN Quadtree_from_bytes(kbytes[i])
                                ELSE Octree_from_bytes(kbytes[i])]
    /\ UNCHANGED <<kkind, kroot, kpat, kpath, kidx, kres, kbytes, kcmp,
                   wvars, hvars, pvars, svars, avars, tvars>>

NextKeys ==
    \/ QuadKeysChild
    \/ OctKeysChild
    \/ KeysStore
    \/ KeysCompare
    \/ KeysLoad

SpecKeys == InitKeys /\ [][NextKeys]_vars

\* ------------------------------------------------------------- projector

\* region_offset(lon, lat)
IcoRegionOffset ==
    /\ ppc = "call"
    /\ pro' \in region_offset(plon, plat)
    /\ ppc' = "offset"
    /\ UNCHANGED <<plon, plat, preg, pun, wvars, hvars, kvars, svars, avars, tvars>>

\* region(lon, lat) for the same coordinate
IcoRegion ==
    /\ ppc = "offset"
    /\ preg' \in ico_region(plon, plat)
    /\ ppc' = "region"
    /\ UNCHANGED <<plon, plat, pro, pun, wvars, hvars, kvars, svars, avars, tvars>>

\* unproject(region, offset) of what region_offset returned
IcoUnproject ==
    /\ ppc = "region" /\ pro.region \in WorldRegion
    /\ pun' = unproject(pro.region, pro)
    /\ ppc' = "done"
    /\ UNCHANGED <<plon, plat, pro, preg, wvars, hvars, kvars, svars, avars, tvars>>

NextIco ==
    \/ IcoRegionOffset
    \/ IcoRegion
    \/ IcoUnproject

SpecIco == InitIco /\ [][NextIco]_vars

\* ------------------------------------------------------------ subdivider

\* One call; its outputs are the coordinates of the next.
SubdivideResult(s) ==
    /\ sprev' = <<sn2w, sn2e>>
    /\ sh' = s.h
    /\ sn2w' = s.n2w
    /\ sn2e' = s.n2e
    /\ ssteps' = ssteps + 1
    /\ UNCHANGED <<skind, wvars, hvars, kvars, pvars, avars, tvars>>

SubdivideFixed ==
    /\ skind = "fixed" /\ ssteps < MaxSubdivisions
    /\ SubdivideResult(subdivide(sn2w, sn2e))

SubdivideFloats ==
    /\ skind = "floats" /\ ssteps < MaxSubdivisions
    /\ SubdivideResult(subdivide_floats(sn2w, sn2e))

NextSubdivide ==
    \/ SubdivideFixed
    \/ SubdivideFloats

SpecSubdivide == InitSubdivide /\ [][NextSubdivide]_vars

\* -------------------------------------------------------- altitude pair

\* One turn of the loop of OctreeIndex::hash in both calls: the vertical
\* child is chosen from a, and a is doubled and masked.  OverflowSteps
\* turns past the documented depth are followed.
AltitudeStep ==
    /\ aalt # <<>> /\ Len(avert[1]) < OMaxDepth + OverflowSteps
    /\ avert' = [i \in 1..2 |-> Append(avert[i], vertical(afrac[i]))]
    /\ afrac' = [i \in 1..2 |-> altitude_next(afrac[i])]
    /\ UNCHANGED <<aalt, wvars, hvars, kvars, pvars, svars, tvars>>

NextAltitude == AltitudeStep

SpecAltitude == InitAltitude /\ [][NextAltitude]_vars

\* ------------------------------------------------------------ twin calls

\* Both calls up to the loop.  region_offset is one function of (lon, lat)
\* and base_transform one computation on its answer, so both calls are given
\* the same answer and derive the same fractions; each picks its root
\* triangle and builds its root index with its own from_region.
TwinStart ==
    /\ tpc = "call"
    /\ \E ro \in region_offset(tlon, tlat) :
          LET qhalf == hash_half(ro.region, ro)
              ohalf == hash_half(ro.region, ro)
          IN  \E f \in barycentric_fractions(ro.region, qhalf, ro) :
                 /\ troot' = <<[region |-> ro.region, half |-> qhalf],
                               [region |-> ro.region, half |-> ohalf]>>
                 /\ tidx' = <<Quadtree_from_region(ro.region, qhalf),
                              Octree_from_region(ro.region, ohalf)>>
                 /\ tfrac' = <<f, f>>
    /\ ta' = altitude_fraction(talt)
    /\ thoriz' = <<<<>>, <<>>>>
    /\ tpc' = "loop"
    /\ tlon' = 0 /\ tlat' = 0 /\ talt' = 0
    /\ UNCHANGED <<wvars, hvars, kvars, pvars, svars, avars>>

\* One turn of the loop in both calls, each visitor answering Continue:
\* each call subdivides its own fractions and steps to the child of its own
\* index.  OverflowSteps turns past the octree's documented depth are
\* followed.
TwinStep ==
    /\ tpc = "loop" /\ Len(thoriz[2]) < OMaxDepth + OverflowSteps
    /\ LET sq == subdivide(tfrac[1][1], tfrac[1][2])
           so == subdivide(tfrac[2][1], tfrac[2][2])
           v == vertical(ta)
       IN  /\ \E qout \in Quadtree_child(tidx[1], sq.h),
                 oout \in Octree_child(tidx[2], so.h, v) :
                 /\ qout.tag = "Ok" /\ oout.tag = "Ok"
                 /\ tidx' = <<qout.idx, oout.idx>>
           /\ tfrac' = <<<<sq.n2w, sq.n2e>>, <<so.n2w, so.n2e>>>>
           /\ thoriz' = <<Append(thoriz[1], sq.h), Append(thoriz[2], so.h)>>
           /\ ta' = altitude_next(ta)
    /\ UNCHANGED <<tlon, tlat, talt, tpc, troot, wvars, hvars, kvars, pvars, svars, avars>>

NextTwin == TwinStart \/ TwinStep

SpecTwin == InitTwin /\ [][NextTwin]_vars

Next ==
    NextWalk \/ NextHash \/ NextKeys \/ NextIco \/ NextSubdivide \/ NextAltitude
    \/ NextTwin

Spec == Init /\ [][Next]_vars

\* ----------------------------------------------------------------- claims

\* The depth() of the walk's index when the walk built it from a root by
\* child steps that kept every bit; -1 otherwise.
WalkDepth(kind) ==
    IF wkind = kind /\ wover = 0
    THEN LET ds == IF kind = "quad" THEN Quadtree_depth(widx) ELSE Octree_depth(widx)
         IN  IF \E d \in 0..QMaxDepth : ds = {[tag |-> "Ok", val |-> d]}
             THEN (CHOOSE d \in ds : TRUE).val
             ELSE -1
    ELSE -1

AllErr(outs) == \A out \in outs : out.tag = "Err"

AllOk(outs) == \A out \in outs : out.tag = "Ok"

\* C1 (packing bound): at depth 29 a QuadtreeIndex's children() and
\* child(h) return Err(MaxQuadtreeDepth), at depth 19 an OctreeIndex's
\* children() and child(h, v) return Err(MaxOctreeDepth); at every
\* shallower depth the same calls return Ok.
C1_PackingBound ==
    /\ WalkDepth("quad") = QMaxDepth =>
          /\ AllErr(Quadtree_children(widx))
          /\ \A h \in HorizontalSubdivision : AllErr(Quadtree_child(widx, h))
    /\ WalkDepth("oct") = OMaxDepth =>
          /\ AllErr(Octree_children(widx))
          /\ \A h \in HorizontalSubdivision, v \in VerticalSubdivision :
                AllErr(Octree_child(widx, h, v))
    /\ WalkDepth("quad") \in 0..(QMaxDepth - 1) =>
          /\ AllOk(Quadtree_children(widx))
          /\ \A h \in HorizontalSubdivision : AllOk(Quadtree_child(widx, h))
    /\ WalkDepth("oct") \in 0..(OMaxDepth - 1) =>
          /\ AllOk(Octree_children(widx))
          /\ \A h \in HorizontalSubdivision, v \in VerticalSubdivision :
                AllOk(Octree_child(widx, h, v))

\* The documented maximum depth of the index type a hash call builds.
HashMaxDepth == IF hkind = "quad" THEN QMaxDepth ELSE OMaxDepth

HashDepth(index) == IF hkind = "quad" THEN Quadtree_depth(index) ELSE Octree_depth(index)

HashParent(index) == IF hkind = "quad" THEN Quadtree_parent(index) ELSE Octree_parent(index)

HashRegion(index) == IF hkind = "quad" THEN Quadtree_region(index) ELSE Octree_region(index)

\* C2 (termination of hash): while visit keeps answering Continue it is
\* called at most 30 (quadtree) or 20 (octree) times, and the call then
\* returns (index, None) with index.depth() equal to 29 or 19.
C2_HashTerminates ==
    /\ hpc = "loop" => visits <= HashMaxDepth + 1
    /\ hpc = "done" /\ hret.payload = "None" =>
          HashDepth(hret.index) = {[tag |-> "Ok", val |-> HashMaxDepth]}

\* C3 (early exit of hash): when visit answers Break(r) on an index of depth
\* k <= maximum depth, hash returns that index with Some(r) and visit has
\* been called exactly k + 1 times.
C3_HashEarlyExit ==
    hpc = "done" /\ hret.payload = "Some" =>
       /\ hret.index = hvisited
       /\ hret.r \in Payloads
       /\ \A k \in 0..HashMaxDepth :
             HashDepth(hvisited) = {[tag |-> "Ok", val |-> k]} => visits = k + 1

\* C4 (visit order of hash): the first index passed to visit has depth 0,
\* and every later one is a child of the one passed just before it: its
\* parent() is that index.
C4_HashVisitOrder ==
    /\ visits = 1 => HashDepth(hvisited) = {[tag |-> "Ok", val |-> 0]}
    /\ visits > 1 => LET par == HashParent(hvisited) IN par.some /\ par.idx = hprev

\* C5 (hash/projector region consistency): the index hash returns has a
\* region() whose WorldRegion is the region region_offset gave for the
\* coordinate (the local base).
C5_HashRegion ==
    hpc = "done" =>
       \A out \in HashRegion(hret.index) : out.tag = "Ok" /\ out.region = hbase

WalkRegion == IF wkind = "quad" THEN Quadtree_region(widx) ELSE Octree_region(widx)

WalkIsRoot == IF wkind = "quad" THEN Quadtree_is_root(widx) ELSE Octree_is_root(widx)

WalkParent == IF wkind = "quad" THEN Quadtree_parent(widx) ELSE Octree_parent(widx)

\* C6 (region() recovers the ancestor root): after 0 up to the maximum
\* number of child steps from from_region(r, t), region() returns (r, t).
C6_RegionRecoversRoot ==
    WalkDepth(wkind) >= 0 => WalkRegion = {OkRegion(wroot[1], wroot[2])}

\* C7 (root round trip): from_region(r, t).is_root() returns Some((r, t)).
C7_RootRoundTrip ==
    wop = "from_region" => WalkIsRoot = {Some2(wroot[1], wroot[2])}

\* C8 (root detection is consistent): for an index built from a root by
\* child steps within the depth bound, is_root() is Some exactly when
\* depth() is 0, and parent() is None exactly when depth() is 0.
C8_RootDetection ==
    wkind # "none" /\ wover = 0 =>
       /\ WalkDepth(wkind) >= 0
       /\ \A o \in WalkIsRoot : o.some <=> WalkDepth(wkind) = 0
       /\ ~WalkParent.some <=> WalkDepth(wkind) = 0

\* parent() has just answered None on an octree root, which is_root() also
\* recognises.
C8_Witness ==
    /\ wkind = "oct" /\ wover = 0 /\ wop = "parent" /\ wres = "None"
    /\ \E o \in Octree_is_root(widx) : o.some

\* The indices of the half-open range first..last, among first + 0..n.
RangeMembers(r, n) ==
    {m \in {WrappingAdd(r.start, j) : j \in 0..n} :
        ~U64Lt(m, r.start) /\ U64Lt(m, r.end)}

\* C9 (quadtree parent/child round trip): for x of depth < 29 and every h,
\* x.child(h).parent() is Some((x, h)); each of the 4 members of
\* x.children() has parent x; the parent's depth is the child's minus 1.
C9_QuadParentChild ==
    WalkDepth("quad") \in 0..(QMaxDepth - 1) =>
       /\ \A h \in HorizontalSubdivision : \A out \in Quadtree_child(widx, h) :
             /\ out.tag = "Ok"
             /\ Quadtree_parent(out.idx) = [some |-> TRUE, idx |-> widx, horiz |-> h]
             /\ Quadtree_depth(out.idx) = {[tag |-> "Ok", val |-> WalkDepth("quad") + 1]}
       /\ \A r \in Quadtree_children(widx) :
             /\ r.tag = "Ok"
             /\ Cardinality(RangeMembers(r, 4)) = 4
             /\ \A m \in RangeMembers(r, 4) :
                   LET par == Quadtree_parent(m) IN par.some /\ par.idx = widx

\* parent() has just led from a depth-29 quadtree index back to the
\* depth-28 index whose child it was.
C9_Witness ==
    /\ wkind = "quad" /\ wover = 0 /\ wop = "parent" /\ wres = "Some"
    /\ wlen = QMaxDepth - 1

\* C10 (octree parent/child round trip): for x of depth < 19 and every h
\* and v, x.child(h, v).parent() is Some((x, h, v)); each of the 8 members
\* of x.children() has parent x; the parent's depth is the child's minus 1.
C10_OctParentChild ==
    WalkDepth("oct") \in 0..(OMaxDepth - 1) =>
       /\ \A h \in HorizontalSubdivision, v \in VerticalSubdivision :
             \A out \in Octree_child(widx, h, v) :
                /\ out.tag = "Ok"
                /\ Octree_parent(out.idx)
                      = [some |-> TRUE, idx |-> widx, horiz |-> h, vert |-> v]
                /\ Octree_depth(out.idx) = {[tag |-> "Ok", val |-> WalkDepth("oct") + 1]}
       /\ \A r \in Octree_children(widx) :
             /\ r.tag = "Ok"
             /\ Cardinality(RangeMembers(r, 8)) = 8
             /\ \A m \in RangeMembers(r, 8) :
                   LET par == Octree_parent(m) IN par.some /\ par.idx = widx

\* parent() has just led from a depth-19 octree index back to the depth-18
\* index whose child it was.
C10_Witness ==
    /\ wkind = "oct" /\ wover = 0 /\ wop = "parent" /\ wres = "Some"
    /\ wlen = OMaxDepth - 1

WalkMaxDepth == IF wkind = "quad" THEN QMaxDepth ELSE OMaxDepth

WalkDepthOf(index) == IF wkind = "quad" THEN Quadtree_depth(index) ELSE Octree_depth(index)

\* Every outcome of x.child(..) over all selectors, for the walk's index x.
WalkChildOutcomes ==
    IF wkind = "quad"
    THEN UNION {Quadtree_child(widx, h) : h \in HorizontalSubdivision}
    ELSE UNION {Octree_child(widx, h, v) :
                    h \in HorizontalSubdivision, v \in VerticalSubdivision}

\* C11 (depth() counts subdivision steps): from_region(r, t).depth() is 0;
\* below the maximum depth every child's depth() is the index's plus 1; so
\* an index built by k child steps (k <= 29 quadtree, k <= 19 octree) has
\* depth() == k.
C11_DepthCountsSteps ==
    wkind # "none" /\ wover = 0 =>
       /\ wlen \in 0..WalkMaxDepth
       /\ WalkDepthOf(widx) = {[tag |-> "Ok", val |-> wlen]}
       /\ wop = "from_region" => WalkDepthOf(widx) = {[tag |-> "Ok", val |-> 0]}
       /\ wlen < WalkMaxDepth =>
             \A out \in WalkChildOutcomes :
                out.tag = "Ok" /\ WalkDepthOf(out.idx) = {[tag |-> "Ok", val |-> wlen + 1]}

\* A child step has just built an octree index of 19 child steps.
C11_Witness ==
    /\ wkind = "oct" /\ wover = 0 /\ wop = "child" /\ wres = "Ok"
    /\ wlen = OMaxDepth

\* The highest set bit of x is bit 5 + bits * d for a depth d <= max.
WellFormedIndex(x, bits, max) ==
    /\ x # U64Zero
    /\ \E d \in 0..max : leading_zeros(x) = 58 - bits * d

\* C12 (index well-formedness): every index that from_region, child,
\* children and parent produce is nonzero, its highest set bit is at bit
\* 5 + 2 * d (quadtree, d <= 29) or 5 + 3 * d (octree, d <= 19), and the
\* debug assertion of depth() holds on it.
C12_WellFormed ==
    wkind # "none" /\ wres # "Panic" =>
       /\ WellFormedIndex(widx, IF wkind = "quad" THEN 2 ELSE 3, WalkMaxDepth)
       /\ \A o \in WalkDepthOf(widx) : o.tag = "Ok"

KeysMaxDepth == IF kkind = "quad" THEN QMaxDepth ELSE OMaxDepth

KeysDepth == Len(kpath[1])

\* x.child of the selector with code c, for the pair's index type.
KeysChild(x, c) ==
    IF kkind = "quad" THEN Quadtree_child(x, c)
    ELSE Octree_child(x, c % 4, c - (c % 4))

\* Lexicographic comparison of two sequences of naturals of one length.
SeqLess(p, q) ==
    \E i \in 1..Len(p) : p[i] < q[i] /\ \A j \in 1..(i - 1) : p[j] = q[j]

\* C13 (key order is tree order at a fixed depth): for two indices a < b of
\* one depth below the maximum every child of a is less than every child of
\* b; the children of one index are ordered by selector code; and integer
\* comparison of two indices of one depth is lexicographic comparison of
\* (root code, selector sequence).  (Stated on the pair before it is stored.)
C13_KeyOrder ==
    kkind # "none" /\ kbytes = <<>> /\ KeysDepth <= KeysMaxDepth =>
       /\ U64Lt(kidx[1], kidx[2])
             <=> SeqLess(<<kroot[1]>> \o kpath[1], <<kroot[2]>> \o kpath[2])
       /\ kidx[1] = kidx[2] <=> (kroot[1] = kroot[2] /\ kpath[1] = kpath[2])
       /\ KeysDepth < KeysMaxDepth =>
             LET ofa == [c \in KeyCodes(kkind) |-> KeysChild(kidx[1], c)]
                 ofb == [c \in KeyCodes(kkind) |-> KeysChild(kidx[2], c)]
             IN  /\ \A c \in KeyCodes(kkind) : \A x \in ofa[c] \cup ofb[c] : x.tag = "Ok"
                 /\ U64Lt(kidx[1], kidx[2]) =>
                       \A c \in KeyCodes(kkind), e \in KeyCodes(kkind) :
                          \A x \in ofa[c], y \in ofb[e] : U64Lt(x.idx, y.idx)
                 /\ \A c \in KeyCodes(kkind), e \in KeyCodes(kkind) :
                       c < e => \A x \in ofa[c], y \in ofa[e] : U64Lt(x.idx, y.idx)

\* Two quadtree keys of one root that parted at their first child step have
\* reached depth 29, the lesser first.
C13_Witness ==
    /\ kkind = "quad" /\ kbytes = <<>> /\ KeysDepth = QMaxDepth
    /\ kroot[1] = kroot[2] /\ kpath[1][1] < kpath[2][1]
    /\ U64Lt(kidx[1], kidx[2])

WalkChildren == IF wkind = "quad" THEN Quadtree_children(widx) ELSE Octree_children(widx)

\* The number of children of an index of the walk's type.
WalkFanout == IF wkind = "quad" THEN 4 ELSE 8

\* C14 (children() is exactly the set of child() results): below the
\* maximum depth the range children() returns holds exactly 4 (quadtree) or
\* 8 (octree) consecutive integers, and it is the set of the child()
\* results over all selectors, which are pairwise distinct.
C14_ChildrenAreChilds ==
    wkind # "none" /\ wover = 0 /\ wlen < WalkMaxDepth =>
       /\ \A out \in WalkChildOutcomes : out.tag = "Ok"
       /\ Cardinality({out.idx : out \in WalkChildOutcomes}) = WalkFanout
       /\ \A r \in WalkChildren :
             /\ r.tag = "Ok"
             /\ r.end = WrappingAdd(r.start, WalkFanout)
             /\ ~AddOverflows(r.start, WalkFanout)
             /\ RangeMembers(r, WalkFanout)
                   = {WrappingAdd(r.start, j) : j \in 0..(WalkFanout - 1)}
             /\ RangeMembers(r, WalkFanout) = {out.idx : out \in WalkChildOutcomes}

\* children() has just answered Ok on an octree index of depth 18.
C14_Witness ==
    /\ wkind = "oct" /\ wover = 0 /\ wop = "children" /\ wres = "Ok"
    /\ wlen = OMaxDepth - 1

\* C15 (region agreement): the WorldRegion region_offset(lon, lat) returns
\* is the WorldRegion the fast classifier region(lon, lat) returns.
C15_RegionAgreement ==
    ppc \in {"region", "done"} => pro.region = preg.region

Abs(v) == IF v < 0 THEN -v ELSE v

\* The spacing of the floats just below TAU, and of those just below
\* FRAC_PI_2: what one rounding can move a longitude or a latitude by.
LonTol == 2^(BitLen(TAU - 1) - MantBits)

LatTol == 2^(BitLen(LatMax) - MantBits)

\* C16 (projection round trip): for lon in [0, TAU),
\* unproject(region_offset(lon, lat)) returns a longitude and a latitude
\* that are each within the rounding tolerance of lon and lat.
C16_RoundTrip ==
    ppc = "done" /\ plon >= 0 /\ plon < TAU =>
       /\ Abs(pun.lon - plon) <= LonTol
       /\ Abs(pun.lat - plat) <= LatTol

SubHalf == IF skind = "fixed" THEN HALF ELSE FloatHalf

\* C17 (subdivider tie-break): when n2w is exactly one half, or n2e is, or
\* their sum is, subdivide returns West, East or Center, and it returns
\* NorthSouth only when n2w + n2e is below one half; subdivide_floats does
\* the same at 0.5.
C17_TieBreak ==
    skind # "none" /\ ssteps > 0 =>
       /\ (sprev[1] = SubHalf \/ sprev[2] = SubHalf \/ sprev[1] + sprev[2] = SubHalf)
             => sh # NorthSouth
       /\ sh = NorthSouth => sprev[1] + sprev[2] < SubHalf

\* subdivide_floats has just been given two coordinates whose sum is 0.5,
\* neither of them 0.5, and has returned Center.
C17_Witness ==
    /\ ssteps > 0 /\ skind = "floats"
    /\ sprev[1] + sprev[2] = FloatHalf /\ sprev[1] > 0 /\ sprev[2] > 0
    /\ sh = Center

\* C18 (storage encoding round trip): from_bytes(as_bytes(x)) is x, and
\* as_bytes(x) is 8 bytes that hold the raw integer of x in one byte order
\* (byte k has weight 256^(k - 1)).
C18_EncodingRoundTrip ==
    /\ kbytes # <<>> =>
          \A i \in 1..2 :
             /\ Len(kbytes[i]) = W64 \div 8
             /\ \A k \in 1..Len(kbytes[i]) : kbytes[i][k] \in 0..255
             /\ \A j \in Limbs : kidx[i][j] = kbytes[i][2 * j - 1] + 256 * kbytes[i][2 * j]
    /\ kload # <<>> => \A i \in 1..2 : kload[i] = Ok(kidx[i])

\* Two octree keys of depth 19 have been stored and read back.
C18_Witness ==
    /\ kkind = "oct" /\ KeysDepth = OMaxDepth /\ kload # <<>>
    /\ kload[1].tag = "Ok" /\ kidx[1] # kidx[2]

KeysCompareOf(d1, d2) ==
    IF kkind = "quad" THEN Quadtree_compare(d1, d2) ELSE Octree_compare(d1, d2)

Reverse(ord) ==
    IF ord = "Less" THEN "Greater" ELSE IF ord = "Greater" THEN "Less" ELSE ord

\* C19 (storage comparator preserves key order): compare on the encoded
\* keys answers as unsigned comparison of the raw integers does, which is
\* the derived Ord of the index type; it is total: Equal only on equal
\* keys, and the answer reverses when the arguments are swapped.
C19_ComparatorOrder ==
    kcmp # "-" =>
       /\ kcmp = "Less" <=> U64Lt(kidx[1], kidx[2])
       /\ kcmp = "Equal" <=> kidx[1] = kidx[2]
       /\ kcmp = "Greater" <=> U64Lt(kidx[2], kidx[1])
       /\ KeysCompareOf(kbytes[2], kbytes[1]) = Reverse(kcmp)
       /\ KeysCompareOf(kbytes[1], kbytes[1]) = "Equal"

\* Two octree keys of depth 19 that differ in their low bytes only in the
\* other direction than in their high bytes have been compared.
C19_Witness ==
    /\ kkind = "oct" /\ KeysDepth = OMaxDepth /\ kcmp = "Less"
    /\ kbytes[1][1] > kbytes[2][1]

KeysFixedWidth == IF kkind = "quad" THEN Quadtree_fixed_width ELSE Octree_fixed_width

KeysFromBytes(data) ==
    IF kkind = "quad" THEN Quadtree_from_bytes(data) ELSE Octree_from_bytes(data)

\* C20 (fixed-width key encoding): the width fixed_width() declares is the
\* number of bytes as_bytes() produces and the number from_bytes()
\* consumes: given that many bytes of the encoding it returns the index.
C20_FixedWidth ==
    kbytes # <<>> =>
       \A i \in 1..2 :
          /\ Len(kbytes[i]) = KeysFixedWidth
          /\ KeysFromBytes(SubSeq(kbytes[i], 1, KeysFixedWidth)) = Ok(kidx[i])

\* x.parent() for the pair's index type, the selector as its code.
KeysParent(x) ==
    IF kkind = "quad"
    THEN LET p == Quadtree_parent(x) IN [some |-> p.some, idx |-> p.idx, code |-> p.horiz]
    ELSE LET p == Octree_parent(x) IN
         [some |-> p.some, idx |-> p.idx, code |-> p.horiz + p.vert]

\* parent() applied until it answers None, at most n times, from x: the
\* indices passed through, x first, and the selector codes returned.
RECURSIVE KeysUnwind(_, _)
KeysUnwind(x, n) ==
    LET p == KeysParent(x) IN
    IF n = 0 \/ ~p.some THEN [idxs |-> <<x>>, codes |-> <<>>]
    ELSE LET up == KeysUnwind(p.idx, n - 1) IN
         [idxs |-> <<x>> \o up.idxs, codes |-> <<p.code>> \o up.codes]

Reversed(s) == [i \in 1..Len(s) |-> s[Len(s) + 1 - i]]

KeysFromRegion(code) ==
    IF kkind = "quad" THEN Quadtree_from_region(code \div 2, code % 2)
    ELSE Octree_from_region(code \div 2, code % 2)

\* The indices child() builds from x along the selector codes of path, x
\* first; it stops where child() does not answer one Ok.
RECURSIVE KeysPack(_, _)
KeysPack(x, path) ==
    IF path = <<>> THEN <<x>>
    ELSE LET outs == KeysChild(x, Head(path)) IN
         IF Cardinality(outs) # 1 \/ ~AllOk(outs) THEN <<x>>
         ELSE <<x>> \o KeysPack((CHOOSE o \in outs : TRUE).idx, Tail(path))

\* C21 (distinct cells get distinct keys): the packing of (region, half,
\* child selectors) is injective over the 20 roots and every length up to
\* the maximum depth, also across depths: among the cells on the way from
\* two roots to two cells of maximum depth there are as many packed
\* indices as cells; and parent() applied k times returns the selectors in
\* reverse order, passes through the indices of the shorter selector
\* sequences and ends at from_region(region, half), where it answers None.
C21_Injective ==
    kkind # "none" /\ kbytes = <<>> /\ KeysDepth = KeysMaxDepth =>
       LET up1 == KeysUnwind(kidx[1], KeysDepth + 1)
           up2 == KeysUnwind(kidx[2], KeysDepth + 1)
           down1 == KeysPack(KeysFromRegion(kroot[1]), kpath[1])
           down2 == KeysPack(KeysFromRegion(kroot[2]), kpath[2])
           cells == {<<kroot[i], SubSeq(kpath[i], 1, k)>> : i \in 1..2, k \in 0..KeysDepth}
           packed == {down1[m] : m \in 1..Len(down1)} \cup {down2[m] : m \in 1..Len(down2)}
       IN  /\ Cardinality({KeysFromRegion(c) : c \in 0..19}) = 20
           /\ Len(down1) = KeysDepth + 1
           /\ Len(down2) = KeysDepth + 1
           /\ Cardinality(packed) = Cardinality(cells)
           /\ up1.idxs = Reversed(down1)
           /\ up2.idxs = Reversed(down2)
           /\ up1.codes = Reversed(kpath[1])
           /\ up2.codes = Reversed(kpath[2])

\* Two octree keys of depth 19 that took the same selectors from different
\* roots.
C21_Witness ==
    /\ kkind = "oct" /\ kbytes = <<>> /\ KeysDepth = OMaxDepth
    /\ kroot[1] # kroot[2] /\ kpath[1] = kpath[2]

\* The belt region of (lon, lat) in exact arithmetic, for
\* |lat| <= TRANS_LAT: wedge i, the offset x from the wedge's centre
\* meridian, and the boundary lines of slope CENTER_SLOPE.
BeltRegion(lon, lat) ==
    LET i == (lon % TAU) \div FRAC_2PI_5
        x == (lon % FRAC_2PI_5) - FRAC_PI_5
    IN  IF x > 0 /\ lat * FRAC_PI_5 < 2 * TRANS_LAT * x - TRANS_LAT * FRAC_PI_5
        THEN 5 + ((i + 1) % 5)
        ELSE IF x <= 0 /\ lat * FRAC_PI_5 < -2 * TRANS_LAT * x - TRANS_LAT * FRAC_PI_5
        THEN 5 + i
        ELSE i

\* The distance of two longitudes around the circle.
LonDistance(l1, l2) ==
    LET d == Abs(l1 - l2) % TAU IN IF d > TAU - d THEN TAU - d ELSE d

\* C23 (boundary correction picks the adjacent southern region): for
\* |lat| <= TRANS_LAT, with wedge i and offset x from the wedge's centre,
\* region_offset and region give 5 + ((i + 1) mod 5) when x > 0 and lat is
\* below CENTER_SLOPE * x - TRANS_LAT, 5 + i when x <= 0 and lat is below
\* -CENTER_SLOPE * x - TRANS_LAT, and i otherwise; and a southern region
\* they give has its anchor longitude (region - 5) * FRAC_2PI_5 within
\* FRAC_PI_5 of lon.
C23_BoundaryCorrection ==
    ppc \in {"region", "done"} /\ plat >= -TRANS_LAT /\ plat <= TRANS_LAT =>
       /\ pro.region = BeltRegion(plon, plat)
       /\ preg.region = BeltRegion(plon, plat)
       /\ \A r \in {pro.region, preg.region} :
             r >= 5 => LonDistance(plon, (r - 5) * FRAC_2PI_5) <= FRAC_PI_5

\* C24 (projector output is always a valid region): for every lon and every
\* lat of [-FRAC_PI_2, FRAC_PI_2] the raw region of region_offset_raw and
\* of region_raw (>> 1) is in 0..9 and the half bit is 0 or 1, so the
\* unchecked conversions meet their precondition; a northern cap
\* (lat > TRANS_LAT) gives 0..4 and a southern cap (lat < -TRANS_LAT) 5..9.
C24_ValidRegion ==
    ppc \in {"region", "done"} =>
       LET raw == region_offset_raw(plon, plat).region
           cls == region_raw(plon, plat)
       IN  /\ raw \in WorldRegion /\ pro.region = raw
           /\ cls \div 2 \in WorldRegion /\ preg.region = cls \div 2
           /\ cls % 2 \in RegionHalf /\ preg.half = cls % 2
           /\ plat > TRANS_LAT => raw \in 0..4 /\ cls \div 2 \in 0..4
           /\ plat < -TRANS_LAT => raw \in 5..9 /\ cls \div 2 \in 5..9

\* C25 (subdivider preserves its own precondition): from fixed-point
\* fractions with 0 <= n2w, 0 <= n2e and n2w + n2e <= 2^29, the fractions
\* subdivide returns satisfy the same, at every step of a run.
C25_PreconditionKept ==
    skind = "fixed" =>
       sn2w >= 0 /\ sn2e >= 0 /\ sn2w + sn2e <= ONE

\* subdivide has answered West on coordinates whose sum was 2^29, in its
\* second call or later, and returned coordinates whose sum is 2^29 again.
C25_Witness ==
    /\ skind = "fixed" /\ ssteps >= 2 /\ sh = West
    /\ sprev[1] + sprev[2] = ONE /\ sn2w + sn2e = ONE /\ sn2w > 0

\* C26 (fixed-point and float subdividers agree): on fixed-point fractions
\* with n2w + n2e <= 2^29, subdivide selects the child that
\* subdivide_floats selects on n2w / 2^29 and n2e / 2^29, and returns that
\* function's fractions times 2^29, the vertices n2w = 2^29 and n2e = 2^29
\* included.
C26_FixedAgreesWithFloats ==
    skind = "fixed" /\ ssteps > 0 =>
       LET f == subdivide_floats_at(F64Mant, ONE, sprev[1], sprev[2])
       IN  sh = f.h /\ sn2w = f.n2w /\ sn2e = f.n2e

HashFromRegion(region, half) ==
    IF hkind = "quad" THEN Quadtree_from_region(region, half)
    ELSE Octree_from_region(region, half)

\* C27 (hash starts at the classifier's root triangle): the first index
\* hash passes to visit is from_region(r, t) for the (r, t) that
\* region(lon, lat) returns: the half hash takes from the sign of the
\* offset's y is the half bit of region_raw.
C27_HashStartsAtClassifier ==
    [][hpc = "call" =>
          \E c \in ico_region(hlon, hlat) :
             hvisited' = HashFromRegion(c.region, c.half)]_vars

\* C28 (octree keys are monotone in altitude): at one (lon, lat), for two
\* altitudes alt1 <= alt2 of the documented range and every depth up to
\* 19, the vertical children OctreeIndex::hash chooses for alt1 are
\* lexicographically at most those it chooses for alt2 (Lower < Upper).
C28_AltitudeMonotone ==
    aalt # <<>> /\ Len(avert[1]) <= OMaxDepth => ~SeqLess(avert[2], avert[1])

\* parent() applied until it answers None, at most n times, from index:
\* the indices passed through, index first.
RECURSIVE HashUnwind(_, _)
HashUnwind(index, n) ==
    LET p == HashParent(index) IN
    IF n = 0 \/ ~p.some THEN <<index>>
    ELSE <<index>> \o HashUnwind(p.idx, n - 1)

\* C29 (hash is resolution-consistent): the index hash returns when visit
\* breaks at depth k is the depth-k ancestor of the index it returns when
\* visit breaks at a depth m >= k within the maximum depth: m - k
\* applications of parent() to the deeper result give the index on which
\* visit was called at depth k, which a Break there returns.
C29_ResolutionConsistent ==
    hpc = "done" /\ hret.payload = "Some" /\ visits <= HashMaxDepth + 1 =>
       /\ hret.index = hseen[visits]
       /\ HashUnwind(hret.index, visits) = Reversed(hseen)

\* An octree hash has returned at depth 19 from a Break.
C29_Witness ==
    /\ hkind = "oct" /\ hpc = "done" /\ hret.payload = "Some"
    /\ visits = OMaxDepth + 1 /\ Len(hseen) = visits

\* The two horizontal bits of the group an index of groups of width bits
\* holds k groups above its lowest.
HorizontalBits(index, width, k) == LowNat(Shr(index, width * k), 2)

====
